---- MODULE Spec2Model ----
(***************************************************************************)
(* CI Boss agent (my_agent/graph.py, github_client.py, linear_client.py):  *)
(* the Run State, the three graph nodes (github, planner, test_runner),    *)
(* the router of build_graph and the collaborators the nodes call.         *)
(*                                                                         *)
(* Conventions.                                                            *)
(*   - A field of the Run State that is absent (key missing / None) holds  *)
(*     NoVal; pr_number absent is 0 (Python tests it with `not`);          *)
(*     changed_files absent is NoFiles; a text field absent is NoText.     *)
(*   - Text whose length or slices the code looks at (test_logs,           *)
(*     commit_message) is a sequence of segments [src, off, n]: n          *)
(*     characters of the source text src starting at offset off. Slicing   *)
(*     and concatenation are computed on the segments, so lengths keep     *)
(*     their real values (20000, 500). A list of file names is held the    *)
(*     same way: n names of the listing src starting at item off.          *)
(*   - calls is the ordered log of everything a node asks of a             *)
(*     collaborator (requests sent, commands run, integrations invoked).   *)
(***************************************************************************)
EXTENDS Integers, Sequences, FiniteSets, TLC

VARIABLES
    env,          \* environment variables (credentials present or not)
    llm_planner,  \* graph.py:85 _llm_planner singleton has been constructed
    state,        \* the Run State (CIState)
    pc,           \* node the graph executes next, "END", or "aborted" (a node raised)
    calls,        \* log of collaborator calls of the whole run, in order
    last,         \* the node invocation that just finished: node, state before, log position
    seed,         \* the Run State the caller started the run with
    nsteps        \* number of node invocations so far

vars == <<env, llm_planner, state, pc, calls, last, seed, nsteps>>

\* Bound on node invocations of one run (the graph itself has no cap).
StepCap == 8

(***************************************************************************)
(* Values                                                                  *)
(***************************************************************************)
NoVal == "<absent>"
NoText == <<[src |-> NoVal, off |-> 0, n |-> 0]>>
NoFiles == <<[src |-> NoVal, off |-> 0, n |-> 0]>>

\* Python truthiness of an optional string / list / text.
Truthy(v) == v # NoVal /\ v # ""
FilesTruthy(f) == f # NoFiles /\ f # <<>>
TextTruthy(t) == t # NoText /\ t # <<>>

RECURSIVE TextLen(_)
TextLen(t) == IF t = <<>> THEN 0 ELSE Head(t).n + TextLen(Tail(t))

\* t[:k]
RECURSIVE TextTake(_, _)
TextTake(t, k) ==
    IF t = <<>> \/ k <= 0 THEN <<>>
    ELSE IF Head(t).n <= k THEN <<Head(t)>> \o TextTake(Tail(t), k - Head(t).n)
    ELSE <<[Head(t) EXCEPT !.n = k]>>

\* a literal piece of text of n characters
Lit(s, n) == IF n = 0 THEN <<>> ELSE <<[src |-> s, off |-> 0, n |-> n]>>

\* state.get(key, default)
Get(v, default) == IF v = NoVal THEN default ELSE v

(***************************************************************************)
(* Collaborator call log                                                   *)
(***************************************************************************)
NoBody == [status |-> NoVal, summary |-> NoVal, issue_url |-> NoVal]
Call(op) == [op |-> op, body |-> NoBody]
CallWith(op, body) == [op |-> op, body |-> body]

Ops(cs) == [i \in 1..Len(cs) |-> cs[i].op]
RECURSIVE CountOp(_, _)
CountOp(cs, op) ==
    IF cs = <<>> THEN 0
    ELSE (IF Head(cs).op = op THEN 1 ELSE 0) + CountOp(Tail(cs), op)
HasOp(cs, op) == \E i \in 1..Len(cs) : cs[i].op = op
\* index of the first call op in cs (0 when there is none)
FirstOp(cs, op) ==
    IF HasOp(cs, op) THEN CHOOSE i \in 1..Len(cs) :
            cs[i].op = op /\ \A j \in 1..(i - 1) : cs[j].op # op
    ELSE 0

\* what a node hands back: the state, the calls it made, whether it raised
Ret(s, cs) == [st |-> s, cs |-> cs, raised |-> FALSE]
Raise(s, cs) == [st |-> s, cs |-> cs, raised |-> TRUE]

\* a + b for texts / lists, merging segments that continue one another
Cat(a, b) ==
    IF a = <<>> THEN b
    ELSE IF b = <<>> THEN a
    ELSE LET x == a[Len(a)]
             y == Head(b)
         IN IF x.src = y.src /\ x.off + x.n = y.off
            THEN SubSeq(a, 1, Len(a) - 1) \o <<[x EXCEPT !.n = x.n + y.n]>> \o Tail(b)
            ELSE a \o b

(***************************************************************************)
(* github_client.py                                                        *)
(***************************************************************************)
PER_PAGE == 100
MAX_PAGES == 10
MAX_COMMIT_MESSAGE == 500

\* number of "/" in the repo strings the model uses
Slashes(repo) ==
    CASE repo = "owner/name" -> 1
      [] repo = "org/team/name" -> 2
      [] OTHER -> 0

\* _parse_repo raises ValueError exactly when the string holds no "/"
\* (split("/", 1) accepts any further "/").
_parse_repo_raises(repo) == Slashes(repo) = 0

\* fetch_pr_details: the head SHA of the PR, NoVal when the call yields nothing.
\* resp is the collaborator's answer: NoVal for a transport error or a non-200.
fetch_pr_details(repo, resp) ==
    IF _parse_repo_raises(repo) THEN [res |-> NoVal, cs |-> <<>>]
    ELSE [res |-> resp, cs |-> <<Call("fetch_pr_details")>>]

\* One page of a PR's files: pages[p] is the number of items the collaborator
\* returns for page p, -1 for a failed request; pages beyond the answer are empty.
PageSize(pages, p) == IF p <= Len(pages) THEN pages[p] ELSE 0
PageItems(p, n) == IF n = 0 THEN <<>> ELSE <<[src |-> "pr_files", off |-> (p - 1) * PER_PAGE, n |-> n]>>

\* Variant: the loop has no page limit.
RECURSIVE PrFilesLoop_NoCap(_, _, _, _)
PrFilesLoop_NoCap(pages, p, all_files, cs) ==
    LET n == PageSize(pages, p)
        cs2 == Append(cs, CallWith("fetch_pr_files", [page |-> p, per_page |-> PER_PAGE]))
    IN IF n < 0 THEN [res |-> NoFiles, cs |-> cs2]
       ELSE IF n = 0 THEN [res |-> all_files, cs |-> cs2]
       ELSE IF n < PER_PAGE THEN [res |-> Cat(all_files, PageItems(p, n)), cs |-> cs2]
       ELSE PrFilesLoop_NoCap(pages, p + 1, Cat(all_files, PageItems(p, n)), cs2)

\* Variant: a failed page ends the loop with the files collected so far.
RECURSIVE PrFilesLoop_PartialOnError(_, _, _, _)
PrFilesLoop_PartialOnError(pages, p, all_files, cs) ==
    IF p > MAX_PAGES THEN [res |-> all_files, cs |-> cs]
    ELSE LET n == PageSize(pages, p)
             cs2 == Append(cs, CallWith("fetch_pr_files", [page |-> p, per_page |-> PER_PAGE]))
         IN IF n <= 0 THEN [res |-> all_files, cs |-> cs2]
            ELSE IF n < PER_PAGE THEN [res |-> Cat(all_files, PageItems(p, n)), cs |-> cs2]
            ELSE PrFilesLoop_PartialOnError(pages, p + 1, Cat(all_files, PageItems(p, n)), cs2)

\* the while loop of fetch_pr_files from page p on, all_files collected so far
RECURSIVE PrFilesLoop(_, _, _, _)
PrFilesLoop(pages, p, all_files, cs) ==
    IF p > MAX_PAGES THEN [res |-> all_files, cs |-> cs]
    ELSE LET n == PageSize(pages, p)
             cs2 == Append(cs, CallWith("fetch_pr_files", [page |-> p, per_page |-> PER_PAGE]))
         IN IF n < 0 THEN [res |-> NoFiles, cs |-> cs2]
            ELSE IF n = 0 THEN [res |-> all_files, cs |-> cs2]
            ELSE IF n < PER_PAGE THEN [res |-> Cat(all_files, PageItems(p, n)), cs |-> cs2]
            ELSE PrFilesLoop(pages, p + 1, Cat(all_files, PageItems(p, n)), cs2)

fetch_pr_files(repo, pages) ==
    IF _parse_repo_raises(repo) THEN [res |-> NoFiles, cs |-> <<>>]
    ELSE PrFilesLoop(pages, 1, <<>>, <<>>)

\* fetch_commit_files: n files of the commit, n = -1 for a failed request
fetch_commit_files(repo, sha, n) ==
    IF _parse_repo_raises(repo) THEN [res |-> NoFiles, cs |-> <<>>]
    ELSE [res |-> IF n < 0 THEN NoFiles
                  ELSE IF n = 0 THEN <<>>
                  ELSE <<[src |-> "commit_files", off |-> 0, n |-> n]>>,
          cs |-> <<CallWith("fetch_commit_files", [ref |-> sha])>>]

\* fetch_commit_details: the commit message (a text), NoText for a failed request
fetch_commit_details(repo, sha, msg) ==
    IF _parse_repo_raises(repo) THEN [res |-> NoText, cs |-> <<>>]
    ELSE [res |-> msg, cs |-> <<CallWith("fetch_commit_details", [ref |-> sha])>>]

\* post_pr_comment: ok is the collaborator's answer (status 200/201 or not)
post_pr_comment(repo, pr_number, body, ok) ==
    IF _parse_repo_raises(repo) THEN [res |-> FALSE, cs |-> <<>>]
    ELSE [res |-> ok, cs |-> <<[op |-> "post_pr_comment", body |-> body, pr |-> pr_number]>>]

\* build_ci_comment: the parts of the body the model tracks
build_ci_comment(s) ==
    [status |-> IF Get(s.test_status, "pending") = "passed" THEN "Tests Passed"
                ELSE IF Get(s.test_status, "pending") = "failed" THEN "Tests Failed"
                ELSE "Tests Pending",
     summary |-> IF Truthy(s.summary) THEN s.summary ELSE NoVal,
     issue_url |-> IF Truthy(s.linear_issue_url) THEN s.linear_issue_url ELSE NoVal]

\* Variant: a missing pr_number is not checked.
post_ci_results_comment_NoPrCheck(s, e, ok) ==
    LET inv == <<Call("post_ci_results_comment")>>
    IN IF ~Truthy(s.repo) THEN [res |-> FALSE, cs |-> inv]
       ELSE IF ~e.GITHUB_TOKEN THEN [res |-> FALSE, cs |-> inv]
       ELSE LET r == post_pr_comment(s.repo, s.pr_number, build_ci_comment(s), ok)
            IN [res |-> r.res, cs |-> inv \o r.cs]

post_ci_results_comment(s, e, ok) ==
    LET inv == <<Call("post_ci_results_comment")>>
    IN IF s.pr_number = 0 THEN [res |-> FALSE, cs |-> inv]
       ELSE IF ~Truthy(s.repo) THEN [res |-> FALSE, cs |-> inv]
       ELSE IF ~e.GITHUB_TOKEN THEN [res |-> FALSE, cs |-> inv]
       ELSE LET r == post_pr_comment(s.repo, s.pr_number, build_ci_comment(s), ok)
            IN [res |-> r.res, cs |-> inv \o r.cs]
(***************************************************************************)
(* linear_client.py                                                        *)
(***************************************************************************)
\* Variant: the team id is not asked for.
LinearConfigured_KeyOnly(e) == e.LINEAR_API_KEY

\* _get_linear_config: both LINEAR_API_KEY and LINEAR_TEAM_ID are needed
LinearConfigured(e) == e.LINEAR_API_KEY /\ e.LINEAR_TEAM_ID

\* the issue the tracker returns for a successful issueCreate
NewIssue == [id |-> "issue-123", url |-> "https://linear.app/issue/ENG-456", identifier |-> "ENG-456"]

\* Variant: the request is sent a second time.
create_linear_issue_Twice(s, e, lin) ==
    IF ~LinearConfigured(e) THEN [res |-> FALSE, cs |-> <<>>]
    ELSE [res |-> lin.create, cs |-> <<Call("issueCreate"), Call("issueCreate")>>]

\* create_linear_issue: one issueCreate request; lin.create is whether it succeeds
create_linear_issue(s, e, lin) ==
    IF ~LinearConfigured(e) THEN [res |-> FALSE, cs |-> <<>>]
    ELSE [res |-> lin.create, cs |-> <<Call("issueCreate")>>]

\* add_comment_to_issue: one commentCreate request
add_comment_to_issue(issue_id, e, lin) ==
    IF ~e.LINEAR_API_KEY THEN [res |-> FALSE, cs |-> <<>>]
    ELSE [res |-> lin.comment, cs |-> <<CallWith("commentCreate", [issueId |-> issue_id])>>]

\* Variant: the workflow state is never touched.
update_issue_state_Never(issue_id, state_name, e, lin) == [res |-> FALSE, cs |-> <<>>]

\* update_issue_state(issue_id, state_name): look the workflow state up, then
\* one issueUpdate request; lin.states is "error", "no_done" or "ok"
update_issue_state(issue_id, state_name, e, lin) ==
    IF ~LinearConfigured(e) THEN [res |-> FALSE, cs |-> <<>>]
    ELSE IF lin.states # "ok" THEN [res |-> FALSE, cs |-> <<Call("GetWorkflowStates")>>]
    ELSE [res |-> lin.update,
          cs |-> <<Call("GetWorkflowStates"),
                   CallWith("issueUpdate", [id |-> issue_id, state_name |-> state_name])>>]

\* Variant: the failed branch drops the issue's url from the state.
UpdateExistingIssue_ForgetsUrl(s, e, lin) ==
    LET test_status == Get(s.test_status, "pending")
        id == s.linear_issue_id
    IN IF test_status = "passed"
       THEN Ret(s, add_comment_to_issue(id, e, lin).cs \o update_issue_state(id, "Done", e, lin).cs)
       ELSE IF test_status = "failed"
       THEN Ret([s EXCEPT !.linear_issue_url = NoVal], add_comment_to_issue(id, e, lin).cs)
       ELSE Ret(s, <<>>)

\* the branch for an issue the state already names (linear_client.py:395-421)
UpdateExistingIssue(s, e, lin) ==
    LET test_status == Get(s.test_status, "pending")
        id == s.linear_issue_id
    IN IF test_status = "passed"
       THEN Ret(s, add_comment_to_issue(id, e, lin).cs \o update_issue_state(id, "Done", e, lin).cs)
       ELSE IF test_status = "failed"
       THEN Ret(s, add_comment_to_issue(id, e, lin).cs)
       ELSE Ret(s, <<>>)

\* the issue create_linear_issue returned is stored (linear_client.py:426-429)
StoreIssue(s, r) ==
    IF r.res
    THEN Ret([s EXCEPT !.linear_issue_id = NewIssue.id,
                       !.linear_issue_url = NewIssue.url,
                       !.linear_issue_identifier = NewIssue.identifier], r.cs)
    ELSE Ret(s, r.cs)

\* Variant: an issue is created whatever the tests did.
CreateIssueIfFailed_AnyStatus(s, e, lin) == StoreIssue(s, create_linear_issue(s, e, lin))

\* the branch without an issue (linear_client.py:422-429)
CreateIssueIfFailed(s, e, lin) ==
    IF Get(s.test_status, "pending") = "failed"
    THEN StoreIssue(s, create_linear_issue(s, e, lin))
    ELSE Ret(s, <<>>)

create_or_update_linear_issue(s, e, lin) ==
    LET inv == <<Call("create_or_update_linear_issue")>>
        r == IF ~LinearConfigured(e) THEN Ret(s, <<>>)
             ELSE IF Truthy(s.linear_issue_id) THEN UpdateExistingIssue(s, e, lin)
             ELSE CreateIssueIfFailed(s, e, lin)
    IN Ret(r.st, inv \o r.cs)

(***************************************************************************)
(* graph.py: github_node                                                   *)
(***************************************************************************)
SENTINEL_SHA == "HEAD"

\* gh is what the Code-Host answers: pr_sha (head SHA or NoVal), pr_pages,
\* commit_files (count, -1 failed), commit_msg (text or NoText)
\* Variant: the placeholder overwrites a commit_sha the caller supplied.
PlaceholderData_Overwrites(s) ==
    Ret([s EXCEPT !.changed_files = IF FilesTruthy(@) THEN @ ELSE <<>>,
                  !.commit_sha = SENTINEL_SHA], <<>>)

\* the branch taken without a token (graph.py:283-290)
PlaceholderData(s) ==
    Ret([s EXCEPT !.changed_files = IF FilesTruthy(@) THEN @ ELSE <<>>,
                  !.commit_sha = IF Truthy(@) THEN @ ELSE SENTINEL_SHA], <<>>)

\* Variant: the closing step writes the sentinel over any commit_sha.
EnsureCommitSha_Always(s) == [s EXCEPT !.commit_sha = SENTINEL_SHA]

\* Variant: the closing fallback to the sentinel is missing.
EnsureCommitSha_Nothing(s) == s

\* "Ensure we have a commit SHA" (graph.py:333-334)
EnsureCommitSha(s) ==
    IF ~Truthy(s.commit_sha) THEN [s EXCEPT !.commit_sha = SENTINEL_SHA] ELSE s

\* Variant: the commit endpoint is asked whenever a SHA is known.
UseCommitEndpoint_Always(changed_files, commit_sha) == Truthy(commit_sha)

\* "if not changed_files and commit_sha" (graph.py:311)
UseCommitEndpoint(changed_files, commit_sha) ==
    ~FilesTruthy(changed_files) /\ Truthy(commit_sha)

\* Variant: whatever the file requests gave is stored, a failed answer too.
StoreChangedFiles_AsFetched(s, changed_files) == [s EXCEPT !.changed_files = changed_files]

\* the files fetched are stored; without any, an unset list becomes empty
\* (graph.py:317-320)
StoreChangedFiles(s, changed_files) ==
    IF FilesTruthy(changed_files) THEN [s EXCEPT !.changed_files = changed_files]
    ELSE IF ~FilesTruthy(s.changed_files) THEN [s EXCEPT !.changed_files = <<>>]
    ELSE s

\* Variant: the commit message is stored whole.
StoreCommitMessage_Whole(s, msg) == [s EXCEPT !.commit_message = msg]

\* state["commit_message"] = commit_message[:500] (graph.py:330)
StoreCommitMessage(s, msg) ==
    [s EXCEPT !.commit_message = TextTake(msg, MAX_COMMIT_MESSAGE)]

\* the fetches made with a repo and a token (graph.py:292-336)
FetchFromGitHub(s, e, gh) ==
    LET wantPr == s.pr_number # 0 /\ ~Truthy(s.commit_sha)
        d == IF wantPr THEN fetch_pr_details(s.repo, gh.pr_sha) ELSE [res |-> NoVal, cs |-> <<>>]
        commit_sha == IF wantPr /\ d.res # NoVal THEN d.res ELSE s.commit_sha
        s1 == IF wantPr /\ Truthy(d.res) THEN [s EXCEPT !.commit_sha = d.res] ELSE s
        pf == IF s.pr_number # 0 THEN fetch_pr_files(s.repo, gh.pr_pages)
              ELSE [res |-> NoFiles, cs |-> <<>>]
        useCommit == UseCommitEndpoint(pf.res, commit_sha)
        cf == IF useCommit THEN fetch_commit_files(s.repo, commit_sha, gh.commit_files)
              ELSE [res |-> pf.res, cs |-> <<>>]
        changed_files == cf.res
        s2 == StoreChangedFiles(s1, changed_files)
        wantMsg == Truthy(commit_sha) /\ ~TextTruthy(s2.commit_message)
        cd == IF wantMsg THEN fetch_commit_details(s.repo, commit_sha, gh.commit_msg)
              ELSE [res |-> NoText, cs |-> <<>>]
        s3 == IF wantMsg /\ TextTruthy(cd.res) THEN StoreCommitMessage(s2, cd.res) ELSE s2
    IN Ret(EnsureCommitSha(s3), d.cs \o pf.cs \o cf.cs \o cd.cs)

\* Variant: a missing repo is not checked.
github_node_NoRepoGuard(s, e, gh) ==
    IF ~e.GITHUB_TOKEN THEN PlaceholderData(s)
    ELSE FetchFromGitHub(s, e, gh)

github_node(s, e, gh) ==
    IF ~Truthy(s.repo) THEN Ret(s, <<>>)
    ELSE IF ~e.GITHUB_TOKEN THEN PlaceholderData(s)
    ELSE FetchFromGitHub(s, e, gh)
(***************************************************************************)
(* graph.py: test_runner_node                                              *)
(***************************************************************************)
DEFAULT_PLAYWRIGHT_COMMAND == "npx playwright test"
DEFAULT_PLAYWRIGHT_TIMEOUT == 1800
MAX_LOG_LENGTH == 20000

STDERR_MARKER == Lit("\n--- STDERR ---\n", 16)
TRUNCATED_MARKER == Lit("\n\n... (truncated)", 17)

\* Variant: the configured command is ignored.
Command_AlwaysDefault(e) == DEFAULT_PLAYWRIGHT_COMMAND

\* Variant: stderr is appended without its marker.
CombinedLogs_NoMarker(stdout, stderr) == Cat(stdout, stderr)

\* Variant: the diagnostic of the last handler leaves the command out.
ErrorLogs_NoCommand(e, msg) == Lit("ERROR: Failed to execute tests - ", 33) \o msg

\* os.environ.get("PLAYWRIGHT_COMMAND", DEFAULT_PLAYWRIGHT_COMMAND)
Command(e) == Get(e.PLAYWRIGHT_COMMAND, DEFAULT_PLAYWRIGHT_COMMAND)
\* the command as text: its length for the commands the model uses
CommandText(e) ==
    CASE Command(e) = DEFAULT_PLAYWRIGHT_COMMAND -> Lit(DEFAULT_PLAYWRIGHT_COMMAND, 19)
      [] Command(e) = "pytest tests/" -> Lit("pytest tests/", 13)
      [] OTHER -> Lit(Command(e), 0)

\* the combined, truncated output of a completed command (graph.py:395-404)
CombinedLogs(stdout, stderr) ==
    Cat(stdout, IF stderr # <<>> THEN Cat(STDERR_MARKER, stderr) ELSE <<>>)
\* Variant: output of exactly MAX_LOG_LENGTH characters is cut as well.
TruncateLogs_AtOrAbove(logs) ==
    IF TextLen(logs) >= MAX_LOG_LENGTH
    THEN Cat(TextTake(logs, MAX_LOG_LENGTH), TRUNCATED_MARKER)
    ELSE logs

TruncateLogs(logs) ==
    IF TextLen(logs) > MAX_LOG_LENGTH
    THEN Cat(TextTake(logs, MAX_LOG_LENGTH), TRUNCATED_MARKER)
    ELSE logs

TimeoutLogs(e) ==
    Lit("ERROR: Test execution timed out after 1800 seconds.\nCommand: ", 61)
    \o CommandText(e)
    \o Lit("\nConsider increasing the timeout or optimizing tests.", 53)
NotFoundLogs(e, msg) ==
    Lit("ERROR: Command not found - ", 27) \o msg \o Lit("\nCommand: ", 10)
    \o CommandText(e)
    \o Lit("\nEnsure Playwright is installed (npm install @playwright/test).", 63)
ErrorLogs(e, msg) ==
    Lit("ERROR: Failed to execute tests - ", 33) \o msg \o Lit("\nCommand: ", 10)
    \o CommandText(e)

\* Variant: a timeout is recorded under a status of its own.
ExecuteTests_TimeoutStatus(s, e, run) ==
    LET cs == <<CallWith("subprocess.run",
                         [command |-> Command(e), timeout |-> DEFAULT_PLAYWRIGHT_TIMEOUT])>>
    IN CASE run.kind = "completed" ->
               Ret([s EXCEPT !.test_logs = TruncateLogs(CombinedLogs(run.stdout, run.stderr)),
                             !.test_status = IF run.rc = 0 THEN "passed" ELSE "failed"],
                   cs)
         [] run.kind = "timeout" ->
               Ret([s EXCEPT !.test_status = "timeout", !.test_logs = TimeoutLogs(e)], cs)
         [] run.kind = "not_found" ->
               Ret([s EXCEPT !.test_status = "failed", !.test_logs = NotFoundLogs(e, run.msg)], cs)
         [] OTHER ->
               Ret([s EXCEPT !.test_status = "failed", !.test_logs = ErrorLogs(e, run.msg)], cs)

\* Variant: a completed command consumes next_action.
ExecuteTests_ClearsAction(s, e, run) ==
    LET cs == <<CallWith("subprocess.run",
                         [command |-> Command(e), timeout |-> DEFAULT_PLAYWRIGHT_TIMEOUT])>>
    IN CASE run.kind = "completed" ->
               Ret([s EXCEPT !.test_logs = TruncateLogs(CombinedLogs(run.stdout, run.stderr)),
                             !.test_status = IF run.rc = 0 THEN "passed" ELSE "failed",
                             !.next_action = NoVal],
                   cs)
         [] run.kind = "timeout" ->
               Ret([s EXCEPT !.test_status = "failed", !.test_logs = TimeoutLogs(e)], cs)
         [] run.kind = "not_found" ->
               Ret([s EXCEPT !.test_status = "failed", !.test_logs = NotFoundLogs(e, run.msg)], cs)
         [] OTHER ->
               Ret([s EXCEPT !.test_status = "failed", !.test_logs = ErrorLogs(e, run.msg)], cs)

\* run is what subprocess.run does: kind "completed" (rc, stdout, stderr),
\* "timeout", "not_found" or "error" (msg: the exception's text)
\* the try statement (graph.py:385-440)
ExecuteTests(s, e, run) ==
    LET cs == <<CallWith("subprocess.run",
                         [command |-> Command(e), timeout |-> DEFAULT_PLAYWRIGHT_TIMEOUT])>>
    IN CASE run.kind = "completed" ->
               Ret([s EXCEPT !.test_logs = TruncateLogs(CombinedLogs(run.stdout, run.stderr)),
                             !.test_status = IF run.rc = 0 THEN "passed" ELSE "failed"],
                   cs)
         [] run.kind = "timeout" ->
               Ret([s EXCEPT !.test_status = "failed", !.test_logs = TimeoutLogs(e)], cs)
         [] run.kind = "not_found" ->
               Ret([s EXCEPT !.test_status = "failed", !.test_logs = NotFoundLogs(e, run.msg)], cs)
         [] OTHER ->
               Ret([s EXCEPT !.test_status = "failed", !.test_logs = ErrorLogs(e, run.msg)], cs)

\* Variant: the command is run whatever next_action says.
test_runner_node_NoSkip(s, e, run) == ExecuteTests(s, e, run)

test_runner_node(s, e, run) ==
    IF s.next_action # "run_tests" THEN Ret(s, <<>>)
    ELSE ExecuteTests(s, e, run)

(***************************************************************************)
(* graph.py: planner_node                                                  *)
(***************************************************************************)
KnownActions == {"run_tests", "analyze_failures", "summarize"}

\* _get_planner_llm: the singleton is built on first use; ChatOpenAI cannot
\* be built without OPENAI_API_KEY (graph.py:20, 84). TRUE when the call raises.
_get_planner_llm_raises(e, llm) == ~llm /\ ~e.OPENAI_API_KEY

\* content[:200] of a reply the model uses
Content200(content) == IF content = "long free text" THEN "long free text[:200]" ELSE content

\* Variant: the two-way rule in place of the three-way one.
FallbackAction_TwoWay(test_status) ==
    IF test_status = "pending" THEN "run_tests" ELSE "summarize"

\* the deterministic rule of the entry decision (graph.py:222-227, 233-241)
FallbackAction(test_status) ==
    IF test_status = "pending" THEN "run_tests"
    ELSE IF test_status = "failed" THEN "analyze_failures"
    ELSE "summarize"

\* the rule used when the JSON does not decode or its action is unknown
\* (graph.py:216, 218)
InvalidAction(test_status) ==
    IF test_status = "pending" THEN "run_tests" ELSE "summarize"

FAILED_SUMMARY == "Tests failed. Creating Linear issue and analyzing failures."
PASSED_SUMMARY == "All tests passed successfully."
ANALYSIS_FALLBACK_SUMMARY == "Test failures detected. See logs for details."

\* Variant: a failed test run is retried instead of analysed.
PostTestDecision_Retry(s, e, lin, ok) ==
    IF Get(s.test_status, "pending") = "failed"
    THEN LET r == create_or_update_linear_issue(s, e, lin)
         IN Ret([r.st EXCEPT !.next_action = "run_tests", !.summary = FAILED_SUMMARY], r.cs)
    ELSE LET s1 == [s EXCEPT !.next_action = "summarize", !.summary = PASSED_SUMMARY]
         IN Ret(s1, post_ci_results_comment(s1, e, ok).cs)

\* Variant: the failed branch forgets the issue tracker.
PostTestDecision_NoIssue(s, e, lin, ok) ==
    IF Get(s.test_status, "pending") = "failed"
    THEN Ret([s EXCEPT !.next_action = "analyze_failures", !.summary = FAILED_SUMMARY], <<>>)
    ELSE LET s1 == [s EXCEPT !.next_action = "summarize", !.summary = PASSED_SUMMARY]
         IN Ret(s1, post_ci_results_comment(s1, e, ok).cs)

\* Variant: the passed branch posts the comment before it sets the summary.
PostTestDecision_PostFirst(s, e, lin, ok) ==
    IF Get(s.test_status, "pending") = "failed"
    THEN LET r == create_or_update_linear_issue(s, e, lin)
         IN Ret([r.st EXCEPT !.next_action = "analyze_failures", !.summary = FAILED_SUMMARY], r.cs)
    ELSE Ret([s EXCEPT !.next_action = "summarize", !.summary = PASSED_SUMMARY],
             post_ci_results_comment(s, e, ok).cs)

\* Variant: the passed branch puts test_status back for a next cycle.
PostTestDecision_ResetsStatus(s, e, lin, ok) ==
    IF Get(s.test_status, "pending") = "failed"
    THEN LET r == create_or_update_linear_issue(s, e, lin)
         IN Ret([r.st EXCEPT !.next_action = "analyze_failures", !.summary = FAILED_SUMMARY], r.cs)
    ELSE LET s1 == [s EXCEPT !.next_action = "summarize", !.summary = PASSED_SUMMARY]
         IN Ret([s1 EXCEPT !.test_status = "pending"], post_ci_results_comment(s1, e, ok).cs)

\* the transition taken when tests have just run (graph.py:126-139)
PostTestDecision(s, e, lin, ok) ==
    IF Get(s.test_status, "pending") = "failed"
    THEN LET r == create_or_update_linear_issue(s, e, lin)
         IN Ret([r.st EXCEPT !.next_action = "analyze_failures", !.summary = FAILED_SUMMARY], r.cs)
    ELSE LET s1 == [s EXCEPT !.next_action = "summarize", !.summary = PASSED_SUMMARY]
         IN Ret(s1, post_ci_results_comment(s1, e, ok).cs)

\* summary of the entry decision (graph.py:212, 219, 228, 235-241)
EntrySummary(test_status, fails, reply) ==
    IF fails THEN (IF test_status = "pending" THEN "Starting test execution"
                   ELSE IF test_status = "failed" THEN "Analyzing test failures"
                   ELSE "Completing CI workflow")
    ELSE IF reply.kind = "text" THEN Content200(reply.content)
    ELSE IF reply.kind = "bad_json" THEN "Proceeding with CI workflow"
    ELSE Get(reply.summary, "Proceeding with CI workflow")

\* Variant: the action of the JSON reply is taken without validation.
EntryDecision_NoValidation(s, e, llm, reply) ==
    LET test_status == Get(s.test_status, "pending")
        fails == _get_planner_llm_raises(e, llm) \/ reply.kind = "raise"
        cs == IF _get_planner_llm_raises(e, llm) THEN <<>> ELSE <<Call("llm.invoke")>>
        action ==
            IF fails THEN FallbackAction(test_status)
            ELSE IF reply.kind = "text" THEN FallbackAction(test_status)
            ELSE IF reply.kind = "bad_json" THEN InvalidAction(test_status)
            ELSE Get(reply.action, "run_tests")
    IN Ret([s EXCEPT !.summary = EntrySummary(test_status, fails, reply),
                     !.next_action = action], cs)

\* the entry decision (graph.py:178-245)
EntryDecision(s, e, llm, reply) ==
    LET test_status == Get(s.test_status, "pending")
        fails == _get_planner_llm_raises(e, llm) \/ reply.kind = "raise"
        cs == IF _get_planner_llm_raises(e, llm) THEN <<>> ELSE <<Call("llm.invoke")>>
        action ==
            IF fails THEN FallbackAction(test_status)
            ELSE IF reply.kind = "text" THEN FallbackAction(test_status)
            ELSE IF reply.kind = "bad_json" THEN InvalidAction(test_status)
            ELSE IF Get(reply.action, "run_tests") \in KnownActions THEN Get(reply.action, "run_tests")
            ELSE InvalidAction(test_status)
    IN Ret([s EXCEPT !.summary = EntrySummary(test_status, fails, reply),
                     !.next_action = action], cs)

\* summary of the analyze_failures transition (graph.py:161-167)
AnalysisSummary(reply) ==
    IF reply.kind = "raise" THEN ANALYSIS_FALLBACK_SUMMARY ELSE reply.content

\* Variant: the comment is posted before the issue tracker is updated.
AnalyzeFailures_PostBeforeIssue(s, e, llm, reply, lin, ok) ==
    IF _get_planner_llm_raises(e, llm) THEN Raise(s, <<>>)
    ELSE LET s1 == [s EXCEPT !.summary = AnalysisSummary(reply)]
             c == post_ci_results_comment(s1, e, ok)
             r == create_or_update_linear_issue(s1, e, lin)
         IN Ret([r.st EXCEPT !.next_action = "summarize"],
                <<Call("llm.invoke")>> \o c.cs \o r.cs)

\* Variant: the transition does not return and runs on into the entry decision.
AnalyzeFailures_NoReturn(s, e, llm, reply, lin, ok) ==
    IF _get_planner_llm_raises(e, llm) THEN Raise(s, <<>>)
    ELSE LET s1 == [s EXCEPT !.summary = AnalysisSummary(reply)]
             r == create_or_update_linear_issue(s1, e, lin)
             c == post_ci_results_comment(r.st, e, ok)
             d == EntryDecision([r.st EXCEPT !.next_action = "summarize"], e, TRUE, reply)
         IN Ret(d.st, <<Call("llm.invoke")>> \o r.cs \o c.cs \o d.cs)

\* the analyze_failures transition (graph.py:142-176)
AnalyzeFailures(s, e, llm, reply, lin, ok) ==
    IF _get_planner_llm_raises(e, llm) THEN Raise(s, <<>>)
    ELSE LET s1 == [s EXCEPT !.summary = AnalysisSummary(reply)]
             r == create_or_update_linear_issue(s1, e, lin)
             c == post_ci_results_comment(r.st, e, ok)
         IN Ret([r.st EXCEPT !.next_action = "summarize"],
                <<Call("llm.invoke")>> \o r.cs \o c.cs)

\* Variant: the check for a test run that has just finished is missing.
planner_node_NoPostTest(s, e, llm, reply, lin, ok) ==
    IF s.next_action = "analyze_failures"
    THEN AnalyzeFailures(s, e, llm, reply, lin, ok)
    ELSE EntryDecision(s, e, llm, reply)

planner_node(s, e, llm, reply, lin, ok) ==
    IF Get(s.test_status, "pending") \in {"failed", "passed"} /\ s.next_action = "run_tests"
    THEN PostTestDecision(s, e, lin, ok)
    ELSE IF s.next_action = "analyze_failures"
    THEN AnalyzeFailures(s, e, llm, reply, lin, ok)
    ELSE EntryDecision(s, e, llm, reply)

\* _llm_planner after a planner_node call
LlmAfter(s, e, llm) ==
    IF Get(s.test_status, "pending") \in {"failed", "passed"} /\ s.next_action = "run_tests" THEN llm
    ELSE llm \/ e.OPENAI_API_KEY

(***************************************************************************)
(* graph.py: build_graph                                                   *)
(***************************************************************************)
\* Variant: analyze_failures is routed back to the decision step.
_should_continue_after_planner_Reanalyze(s) ==
    IF s.next_action = "run_tests" THEN "test_runner"
    ELSE IF s.next_action = "analyze_failures" THEN "planner"
    ELSE "END"

\* Variant: only summarize ends the run.
_should_continue_after_planner_OnlySummarizeEnds(s) ==
    IF s.next_action = "summarize" THEN "END" ELSE "test_runner"

_should_continue_after_planner(s) ==
    IF s.next_action = "run_tests" THEN "test_runner" ELSE "END"

_should_continue_after_test_runner(s) == "planner"
(***************************************************************************)
(* The orchestration run: graph.invoke(seed)                               *)
(***************************************************************************)
ExistingIssue == [id |-> "issue-001", url |-> "https://linear.app/issue/ENG-1", identifier |-> "ENG-1"]

\* Run States a caller can seed a run with
SeedStates ==
    { [repo |-> repo, commit_sha |-> sha, commit_message |-> NoText, pr_number |-> pr,
       changed_files |-> NoFiles, test_status |-> ts, test_logs |-> NoText,
       summary |-> NoVal, next_action |-> na,
       linear_issue_id |-> (IF iss THEN ExistingIssue.id ELSE NoVal),
       linear_issue_url |-> (IF iss THEN ExistingIssue.url ELSE NoVal),
       linear_issue_identifier |-> (IF iss THEN ExistingIssue.identifier ELSE NoVal)] :
      repo \in {NoVal, "owner/name"}, sha \in {NoVal, "cafe1234"}, pr \in {0, 7},
      ts \in {NoVal, "pending", "passed", "failed"},
      na \in {NoVal} \cup KnownActions, iss \in BOOLEAN }

\* environments: credentials present or not
Envs ==
    { [GITHUB_TOKEN |-> gt, LINEAR_API_KEY |-> lk, LINEAR_TEAM_ID |-> lk,
       OPENAI_API_KEY |-> ok, PLAYWRIGHT_COMMAND |-> NoVal] :
      gt \in BOOLEAN, lk \in BOOLEAN, ok \in BOOLEAN }

\* answers of the Code-Host to the fetch step
GhAnswers ==
    { [pr_sha |-> NoVal, pr_pages |-> <<-1>>, commit_files |-> -1, commit_msg |-> NoText],
      [pr_sha |-> "abc123def456", pr_pages |-> <<2>>, commit_files |-> 1, commit_msg |-> Lit("fix bug", 7)],
      [pr_sha |-> "abc123def456", pr_pages |-> <<>>, commit_files |-> 1, commit_msg |-> Lit("long message", 600)] }

\* answers of the issue tracker
LinAnswers ==
    { [create |-> TRUE, comment |-> TRUE, states |-> "ok", update |-> TRUE],
      [create |-> FALSE, comment |-> FALSE, states |-> "error", update |-> FALSE],
      [create |-> TRUE, comment |-> FALSE, states |-> "no_done", update |-> FALSE],
      [create |-> TRUE, comment |-> TRUE, states |-> "ok", update |-> FALSE] }

\* behaviours of the Summarizer
NoReply == [kind |-> "none", action |-> NoVal, summary |-> NoVal, content |-> NoVal]
LLMReplies ==
    { [kind |-> "raise", action |-> NoVal, summary |-> NoVal, content |-> NoVal],
      [kind |-> "text", action |-> NoVal, summary |-> NoVal, content |-> "free text"],
      [kind |-> "text", action |-> NoVal, summary |-> NoVal, content |-> "long free text"],
      [kind |-> "bad_json", action |-> NoVal, summary |-> NoVal, content |-> "{\"action\": run_tests}"] }
    \cup { [kind |-> "json", action |-> a, summary |-> "LLM summary", content |-> "{json}"] :
           a \in KnownActions \cup {"deploy", NoVal} }
    \cup { [kind |-> "json", action |-> "summarize", summary |-> NoVal, content |-> "{json}"] }

\* outcomes of the test command
TestRuns ==
    { [kind |-> "completed", rc |-> 0, stdout |-> Lit("stdout", 120), stderr |-> <<>>, msg |-> <<>>],
      [kind |-> "completed", rc |-> 1, stdout |-> Lit("stdout", 120), stderr |-> Lit("stderr", 40), msg |-> <<>>],
      [kind |-> "completed", rc |-> 1, stdout |-> Lit("stdout", 30000), stderr |-> Lit("stderr", 40), msg |-> <<>>],
      [kind |-> "timeout", rc |-> 0, stdout |-> <<>>, stderr |-> <<>>, msg |-> <<>>],
      [kind |-> "not_found", rc |-> 0, stdout |-> <<>>, stderr |-> <<>>, msg |-> Lit("exception text", 22)],
      [kind |-> "error", rc |-> 0, stdout |-> <<>>, stderr |-> <<>>, msg |-> Lit("exception text", 22)] }

Init ==
    /\ env \in Envs
    /\ llm_planner = FALSE
    /\ state \in SeedStates
    /\ seed = state
    /\ pc = "github"
    /\ calls = <<>>
    /\ last = [node |-> "none", pre |-> state, from |-> 0, reply |-> NoReply, llm |-> FALSE]
    /\ nsteps = 0

\* a node ran: r is what it handed back, next the node the graph goes to;
\* reply is the Summarizer's behaviour the node met (NoReply when it met none)
Step(node, r, next, reply) ==
    /\ nsteps < StepCap
    /\ nsteps' = nsteps + 1
    /\ last' = [node |-> node, pre |-> state, from |-> Len(calls), reply |-> reply,
                llm |-> llm_planner]
    /\ calls' = calls \o r.cs
    /\ state' = r.st
    /\ pc' = IF r.raised THEN "aborted" ELSE next
    /\ UNCHANGED <<env, seed>>

Github ==
    /\ pc = "github"
    /\ \E gh \in GhAnswers :
          Step("github", github_node(state, env, gh), "planner", NoReply)
    /\ UNCHANGED llm_planner

\* The answers a planner_node call can meet. A transition that consults no
\* Summarizer (or no issue tracker and Code-Host) is explored with one answer
\* of that collaborator only: the answer is never read.
PostTestEntry(s) ==
    Get(s.test_status, "pending") \in {"failed", "passed"} /\ s.next_action = "run_tests"
RepliesFor(s) ==
    IF PostTestEntry(s)
    THEN {[kind |-> "json", action |-> "run_tests", summary |-> "LLM summary", content |-> "{json}"]}
    ELSE LLMReplies
LinAnswersFor(s) ==
    IF PostTestEntry(s) \/ s.next_action = "analyze_failures" THEN LinAnswers
    ELSE {[create |-> TRUE, comment |-> TRUE, states |-> "ok", update |-> TRUE]}
PostAnswersFor(s) ==
    IF PostTestEntry(s) \/ s.next_action = "analyze_failures" THEN BOOLEAN ELSE {TRUE}

Planner ==
    /\ pc = "planner"
    /\ \E reply \in RepliesFor(state), lin \in LinAnswersFor(state), ok \in PostAnswersFor(state) :
          LET r == planner_node(state, env, llm_planner, reply, lin, ok)
          IN Step("planner", r, _should_continue_after_planner(r.st),
                  IF PostTestEntry(state) THEN NoReply ELSE reply)
    /\ llm_planner' = LlmAfter(state, env, llm_planner)

TestRunner ==
    /\ pc = "test_runner"
    /\ \E run \in TestRuns :
          LET r == test_runner_node(state, env, run)
          IN Step("test_runner", r, _should_continue_after_test_runner(r.st), NoReply)
    /\ UNCHANGED llm_planner

Next == Github \/ Planner \/ TestRunner

Spec == Init /\ [][Next]_vars

\* the calls of the node invocation that just finished
StepCalls == SubSeq(calls, last.from + 1, Len(calls))
(***************************************************************************)
(* Properties                                                              *)
(***************************************************************************)
\* the decision step (planner_node) is the node that just ran
PlannerRan == last.node = "planner"
PlannerReturned == PlannerRan /\ pc # "aborted"
PreStatus == Get(last.pre.test_status, "pending")
\* which of its three transitions it took
PostTestTaken == PlannerRan /\ PostTestEntry(last.pre)
AnalyzeTaken == PlannerRan /\ ~PostTestEntry(last.pre) /\ last.pre.next_action = "analyze_failures"
EntryTaken == PlannerRan /\ ~PostTestEntry(last.pre) /\ last.pre.next_action # "analyze_failures"
\* the Summarizer raised in that invocation: building the client or invoke
SummarizerRaised ==
    /\ PlannerRan /\ ~PostTestEntry(last.pre)
    /\ (last.reply.kind = "raise" \/ _get_planner_llm_raises(env, last.llm))
TestsExecuted == HasOp(calls, "subprocess.run")
LinearRequests == {"issueCreate", "commentCreate", "GetWorkflowStates", "issueUpdate"}

\* the rule the claims state: pending -> run_tests, failed -> analyze_failures,
\* passed -> summarize
ClaimedRule(status) ==
    CASE status = "pending" -> "run_tests"
      [] status = "failed" -> "analyze_failures"
      [] status = "passed" -> "summarize"

\* C1: every run reaches END: a run that has not reached END can always take
\* another step (no node raises, no run is cut off by the step bound).
C1_RunReachesEnd == pc = "END" \/ ENABLED Next

\* C2: the test command is executed at most once per run; only the entry
\* decision yields next_action = run_tests; the decision step that follows a
\* test execution yields a terminal action and the run ends.
C2_TestsRunAtMostOnce ==
    /\ CountOp(calls, "subprocess.run") <= 1
    /\ (PlannerReturned /\ state.next_action = "run_tests" => EntryTaken)
    /\ (PlannerRan /\ last.from >= 1 /\ calls[last.from].op = "subprocess.run"
            => pc = "END" /\ state.next_action \in {"analyze_failures", "summarize"})
C2_Witness ==
    /\ pc = "END" /\ CountOp(calls, "subprocess.run") = 1
    /\ PostTestTaken /\ seed.next_action = "run_tests"

\* C3: a finished run with a well-formed repo, a pr_number and the code-host
\* credential, in which the tests were executed, has sent a status comment.
C3_CommentPostedAfterTests ==
    (pc = "END" /\ TestsExecuted /\ Slashes(state.repo) = 1 /\ state.pr_number # 0
        /\ env.GITHUB_TOKEN)
    => HasOp(calls, "post_pr_comment")

\* C4: in the entry decision a reply without a JSON object, with JSON that
\* does not decode or with an unknown action leads to the three-way rule
\* pending -> run_tests, failed -> analyze_failures, passed -> summarize.
InvalidReply(reply) ==
    \/ reply.kind \in {"text", "bad_json"}
    \/ reply.kind = "json" /\ reply.action # NoVal /\ reply.action \notin KnownActions
C4_InvalidReplyUsesFallbackRule ==
    (EntryTaken /\ ~SummarizerRaised /\ InvalidReply(last.reply))
    => state.next_action = ClaimedRule(PreStatus)

\* C5 as stated: whenever the Summarizer call raises during a decision step,
\* the step does not raise and next_action follows the three-way rule.
InvokeRaised == PlannerRan /\ HasOp(StepCalls, "llm.invoke") /\ last.reply.kind = "raise"
C5_RaiseUsesFallbackRule ==
    InvokeRaised => pc # "aborted" /\ state.next_action = ClaimedRule(PreStatus)
\* C5 as amended: that holds of the entry decision; in the analyze_failures
\* transition an exception of invoke leaves the generic summary and summarize.
C5_EntryRaiseUsesFallbackRule ==
    /\ (EntryTaken /\ SummarizerRaised
            => pc # "aborted" /\ state.next_action = ClaimedRule(PreStatus))
    /\ (AnalyzeTaken /\ last.reply.kind = "raise" /\ pc # "aborted"
            => state.next_action = "summarize" /\ state.summary = ANALYSIS_FALLBACK_SUMMARY)
C5_Witness ==
    /\ EntryTaken /\ SummarizerRaised /\ PreStatus = "failed"
    /\ state.next_action = "analyze_failures" /\ pc = "END"

\* C6: entered with next_action = run_tests and test_status = failed, the
\* decision step invokes the issue-tracker integration, sets next_action =
\* analyze_failures and the fixed summary, and does not call the Summarizer.
C6_FailedAfterTests ==
    (PostTestTaken /\ PreStatus = "failed")
    => /\ pc # "aborted"
       /\ CountOp(StepCalls, "create_or_update_linear_issue") = 1
       /\ state.next_action = "analyze_failures"
       /\ state.summary = FAILED_SUMMARY
       /\ ~HasOp(StepCalls, "llm.invoke")
C6_Witness ==
    /\ PostTestTaken /\ PreStatus = "failed" /\ TestsExecuted
    /\ HasOp(StepCalls, "issueCreate") /\ state.linear_issue_id = NewIssue.id

\* C7: entered with next_action = run_tests and test_status = passed, the
\* decision step sets next_action = summarize and the fixed summary, then
\* posts the status comment, which carries that summary; it does not call the
\* Summarizer, and the run ends.
C7_PassedAfterTests ==
    (PostTestTaken /\ PreStatus = "passed")
    => /\ pc = "END"
       /\ state.next_action = "summarize"
       /\ state.summary = PASSED_SUMMARY
       /\ ~HasOp(StepCalls, "llm.invoke")
       /\ CountOp(StepCalls, "post_ci_results_comment") = 1
       /\ \A i \in 1..Len(StepCalls) :
             StepCalls[i].op = "post_pr_comment" => StepCalls[i].body.summary = PASSED_SUMMARY
C7_Witness ==
    /\ PostTestTaken /\ PreStatus = "passed" /\ TestsExecuted
    /\ HasOp(StepCalls, "post_pr_comment")

\* C8: entered with next_action = analyze_failures, the decision step calls
\* the Summarizer first (its text, or the generic summary when invoke raises,
\* becomes summary), then the issue-tracker integration, then posts the
\* comment, and ends with next_action = summarize; the comment carries the
\* summary and the issue created in this transition.
C8_AnalyzeOrder ==
    (AnalyzeTaken /\ pc # "aborted")
    => LET cs == StepCalls
           iLin == FirstOp(cs, "create_or_update_linear_issue")
           iPost == FirstOp(cs, "post_ci_results_comment")
           text == IF last.reply.kind = "raise" THEN ANALYSIS_FALLBACK_SUMMARY
                   ELSE last.reply.content
       IN /\ cs[1].op = "llm.invoke" /\ CountOp(cs, "llm.invoke") = 1
          /\ iLin = 2 /\ CountOp(cs, "create_or_update_linear_issue") = 1
          /\ iPost > iLin /\ CountOp(cs, "post_ci_results_comment") = 1
          /\ \A k \in 1..Len(cs) :
                /\ cs[k].op \in LinearRequests => iLin < k /\ k < iPost
                /\ cs[k].op = "post_pr_comment"
                     => /\ k > iPost
                        /\ cs[k].body.summary = text
                        /\ (HasOp(cs, "issueCreate") /\ state.linear_issue_id = NewIssue.id
                               => cs[k].body.issue_url = NewIssue.url)
          /\ state.summary = text
          /\ state.next_action = "summarize"
C8_Witness ==
    /\ AnalyzeTaken /\ pc = "END"
    /\ HasOp(StepCalls, "issueCreate") /\ state.linear_issue_id = NewIssue.id
    /\ HasOp(StepCalls, "post_pr_comment")

\* C9: one invocation of the decision step calls the Summarizer at most once.
C9_OneSummarizerCall == PlannerRan => CountOp(StepCalls, "llm.invoke") <= 1
C9_Witness == AnalyzeTaken /\ CountOp(StepCalls, "llm.invoke") = 1 /\ pc = "END"

RunnerCommands == {NoVal, "pytest tests/", ""}
RunnerEnvs ==
    { [GITHUB_TOKEN |-> FALSE, LINEAR_API_KEY |-> FALSE, LINEAR_TEAM_ID |-> FALSE,
       OPENAI_API_KEY |-> FALSE, PLAYWRIGHT_COMMAND |-> c] : c \in RunnerCommands }
RunnerStates ==
    { [repo |-> "owner/name", commit_sha |-> "cafe1234", commit_message |-> NoText,
       pr_number |-> 0, changed_files |-> NoFiles, test_status |-> ts, test_logs |-> tl,
       summary |-> NoVal, next_action |-> na, linear_issue_id |-> NoVal,
       linear_issue_url |-> NoVal, linear_issue_identifier |-> NoVal] :
      ts \in {NoVal, "pending", "passed", "failed"},
      tl \in {NoText, Lit("earlier logs", 50)},
      na \in {NoVal} \cup KnownActions }
\* result.returncode: 0, a plain failure, a usage error, killed by a signal
ExitCodes == {0, 1, 2, -9}
StdoutTexts == { Lit("stdout", n) : n \in {0, 120, 19944, 19945, 19970, 20000, 30000} }
StderrTexts == { Lit("stderr", n) : n \in {0, 40} }
RunnerRuns ==
    { [kind |-> "completed", rc |-> rc, stdout |-> out, stderr |-> err, msg |-> <<>>] :
      rc \in ExitCodes, out \in StdoutTexts, err \in StderrTexts }
    \cup { [kind |-> k, rc |-> 0, stdout |-> <<>>, stderr |-> <<>>, msg |-> m] :
           k \in {"timeout", "not_found", "error"}, m \in {Lit("exception text", 22)} }

RunnerInit ==
    /\ env \in RunnerEnvs
    /\ llm_planner = FALSE
    /\ state \in RunnerStates
    /\ seed = state
    /\ pc = "test_runner"
    /\ calls = <<>>
    /\ last = [node |-> "none", pre |-> state, from |-> 0, reply |-> NoReply, llm |-> FALSE]
    /\ nsteps = 0

\* one call test_runner_node(state); last.run is what subprocess.run did
RunTestRunner ==
    /\ pc = "test_runner"
    /\ \E run \in RunnerRuns :
          LET r == test_runner_node(state, env, run)
          IN /\ state' = r.st
             /\ calls' = calls \o r.cs
             /\ last' = [node |-> "test_runner", pre |-> state, from |-> Len(calls),
                         reply |-> NoReply, llm |-> FALSE, run |-> run]
             /\ pc' = IF r.raised THEN "aborted" ELSE "returned"
    /\ nsteps' = nsteps + 1
    /\ UNCHANGED <<env, seed, llm_planner>>

RunnerNext == RunTestRunner
RunnerSpec == RunnerInit /\ [][RunnerNext]_vars

\* the test execution step was called / was called with next_action = run_tests
RunnerCalled == last.node = "test_runner"
RunnerExecuted == RunnerCalled /\ last.pre.next_action = "run_tests"
RunCompleted == RunnerExecuted /\ last.run.kind = "completed"
RunFailedToExecute == RunnerExecuted /\ last.run.kind \in {"timeout", "not_found", "error"}
\* the command the environment configures, as the claims state it
ConfiguredCommand ==
    IF env.PLAYWRIGHT_COMMAND = NoVal THEN "npx playwright test" ELSE env.PLAYWRIGHT_COMMAND
\* sub occurs in t as a contiguous piece
Contains(t, sub) ==
    \E i \in 1..(Len(t) - Len(sub) + 1) : SubSeq(t, i, i + Len(sub) - 1) = sub

\* C11: called with next_action other than run_tests (absent included), the
\* test execution step runs no command and returns the Run State with every
\* field unchanged.
C11_SkipLeavesStateUnchanged ==
    (RunnerCalled /\ last.pre.next_action # "run_tests")
        => (state = last.pre /\ StepCalls = <<>> /\ pc = "returned")
C11_Witness ==
    /\ RunnerCalled /\ last.pre.next_action = NoVal /\ last.pre.test_status = "pending"
    /\ last.run.kind = "completed" /\ last.run.rc = 1
    /\ state = last.pre /\ calls = <<>>

\* C12: when the command completes, test_status is passed exactly when the
\* exit code is 0 and failed for every other exit code, and the step has run
\* the command PLAYWRIGHT_COMMAND configures (the default when unset) exactly
\* once.
C12_ExitCodeDecidesStatus ==
    RunCompleted =>
        /\ (state.test_status = "passed") <=> (last.run.rc = 0)
        /\ last.run.rc # 0 => state.test_status = "failed"
        /\ Len(StepCalls) = 1
        /\ StepCalls[1].op = "subprocess.run"
        /\ StepCalls[1].body.command = ConfiguredCommand
C12_Witness ==
    /\ RunCompleted /\ last.run.rc = -9 /\ last.pre.test_status = "passed"
    /\ env.PLAYWRIGHT_COMMAND = "pytest tests/"
    /\ state.test_status = "failed"
    /\ StepCalls[1].body.command = "pytest tests/"

\* the opening of the diagnostic each execution failure writes
ClaimedDiagnostic(kind) ==
    CASE kind = "timeout" -> "ERROR: Test execution timed out after 1800 seconds.\nCommand: "
      [] kind = "not_found" -> "ERROR: Command not found - "
      [] kind = "error" -> "ERROR: Failed to execute tests - "

\* C13: a timeout, a command that is not found and any other exception each
\* set test_status to failed and write their own diagnostic, which contains
\* the configured command, into test_logs; none of them leaves the step.
C13_ExecutionFailureIsRecorded ==
    RunFailedToExecute =>
        /\ state.test_status = "failed"
        /\ pc = "returned"
        /\ Head(state.test_logs).src = ClaimedDiagnostic(last.run.kind)
        /\ \/ ConfiguredCommand = ""
           \/ \E i \in 1..Len(state.test_logs) :
                 /\ state.test_logs[i].src = ConfiguredCommand
                 /\ <<state.test_logs[i]>> = CommandText(env)
C13_Witness ==
    /\ RunFailedToExecute /\ last.run.kind = "error" /\ last.pre.test_status = "passed"
    /\ env.PLAYWRIGHT_COMMAND = "pytest tests/"
    /\ state.test_status = "failed"
    /\ Contains(state.test_logs, Lit("pytest tests/", 13))

\* C14 as stated: after a completed command test_logs holds stdout up to the
\* cap, and for every nonzero exit with non-empty stderr it holds the STDERR
\* marker followed by the stderr text.
C14_StderrAlwaysInLogs ==
    RunCompleted =>
        /\ TextTake(state.test_logs, TextLen(TextTake(last.run.stdout, MAX_LOG_LENGTH)))
             = TextTake(last.run.stdout, MAX_LOG_LENGTH)
        /\ (last.run.rc # 0 /\ last.run.stderr # <<>>)
              => Contains(state.test_logs, STDERR_MARKER \o last.run.stderr)

\* C14: after a completed command test_logs starts with stdout up to the cap,
\* and for every nonzero exit with non-empty stderr the first MAX_LOG_LENGTH
\* characters of test_logs are the first MAX_LOG_LENGTH characters of stdout,
\* the STDERR marker and stderr: marker and stderr are whole in test_logs
\* only when all three fit in the cap.
C14_LogsAreCappedOutput ==
    RunCompleted =>
        LET all == last.run.stdout \o STDERR_MARKER \o last.run.stderr
        IN /\ TextTake(state.test_logs, TextLen(TextTake(last.run.stdout, MAX_LOG_LENGTH)))
                = TextTake(last.run.stdout, MAX_LOG_LENGTH)
           /\ (last.run.rc # 0 /\ last.run.stderr # <<>>) =>
                 /\ TextTake(state.test_logs, MAX_LOG_LENGTH) = TextTake(all, MAX_LOG_LENGTH)
                 /\ TextLen(all) <= MAX_LOG_LENGTH
                        => Contains(state.test_logs, STDERR_MARKER \o last.run.stderr)
C14_Witness ==
    /\ RunCompleted /\ last.run.rc = 2 /\ last.run.stderr # <<>>
    /\ TextLen(last.run.stdout) = 19970
    /\ Contains(state.test_logs, STDERR_MARKER)
    /\ ~Contains(state.test_logs, last.run.stderr)

\* C15: within a run test_status never goes back: once it is passed or
\* failed, no step of the run leaves it pending or absent.
C15_StatusNeverBackToPending ==
    [][state.test_status \in {"passed", "failed"}
          => state'.test_status \in {"passed", "failed"}]_vars
C15_Witness ==
    /\ seed.test_status = "passed" /\ TestsExecuted
    /\ last.node = "planner" /\ pc = "END"
    /\ state.test_status = "failed"

(***************************************************************************)
(* github_node on its own: one call on any Run State, with or without a    *)
(* token, and a second call on the state the first returned, the Code-Host *)
(* answering both alike                                                    *)
(***************************************************************************)
FetchEnvs ==
    { [GITHUB_TOKEN |-> gt, LINEAR_API_KEY |-> FALSE, LINEAR_TEAM_ID |-> FALSE,
       OPENAI_API_KEY |-> FALSE, PLAYWRIGHT_COMMAND |-> NoVal] : gt \in BOOLEAN }
FetchStates ==
    { [repo |-> repo, commit_sha |-> sha, commit_message |-> msg, pr_number |-> pr,
       changed_files |-> files, test_status |-> "pending", test_logs |-> NoText,
       summary |-> NoVal, next_action |-> NoVal, linear_issue_id |-> NoVal,
       linear_issue_url |-> NoVal, linear_issue_identifier |-> NoVal] :
      repo \in {NoVal, "", "owner/name", "name", "org/team/name"},
      sha \in {NoVal, "", "cafe1234"},
      msg \in {NoText, <<>>, Lit("caller message", 14)},
      pr \in {0, 7},
      files \in {NoFiles, <<>>, <<[src |-> "caller_files", off |-> 0, n |-> 2]>>} }
FetchAnswers ==
    { [pr_sha |-> sha, pr_pages |-> pages, commit_files |-> n, commit_msg |-> msg] :
      sha \in {NoVal, "abc123def456"},
      pages \in {<<-1>>, <<>>, <<2>>, <<100, 37>>},
      n \in {-1, 0, 3},
      msg \in {NoText, <<>>, Lit("fix bug", 7), Lit("long message", 600)} }

FetchInit ==
    /\ env \in FetchEnvs
    /\ llm_planner = FALSE
    /\ state \in FetchStates
    /\ seed = state
    /\ pc = "github"
    /\ calls = <<>>
    /\ last = [node |-> "none", pre |-> state, from |-> 0, reply |-> NoReply, llm |-> FALSE]
    /\ nsteps = 0

\* one call github_node(state) that meets the answers gh
FetchCall(gh, next) ==
    LET r == github_node(state, env, gh)
    IN /\ state' = r.st
       /\ calls' = calls \o r.cs
       /\ last' = [node |-> "github", pre |-> state, from |-> Len(calls),
                   reply |-> NoReply, llm |-> FALSE, gh |-> gh]
       /\ pc' = IF r.raised THEN "aborted" ELSE next
       /\ nsteps' = nsteps + 1
       /\ UNCHANGED <<env, seed, llm_planner>>

FetchFirst == pc = "github" /\ \E gh \in FetchAnswers : FetchCall(gh, "github_again")
\* the second call meets the answers the first one met
FetchAgain == pc = "github_again" /\ FetchCall(last.gh, "returned")

FetchNext == FetchFirst \/ FetchAgain
FetchSpec == FetchInit /\ [][FetchNext]_vars

FetchCalled == last.node = "github"

\* C16: for every Run State whose repo is absent or empty the fetch step
\* returns the state with every field unchanged, calls no Code-Host endpoint
\* and raises nothing.
C16_NoRepoNoEffect ==
    (FetchCalled /\ last.pre.repo \in {NoVal, ""})
        => (state = last.pre /\ StepCalls = <<>> /\ pc # "aborted")
C16_Witness ==
    /\ FetchCalled /\ pc = "github_again" /\ last.pre.repo = "" /\ env.GITHUB_TOKEN
    /\ last.pre.pr_number = 7 /\ last.pre.commit_sha = NoVal
    /\ state = last.pre /\ calls = <<>>

FetchedWithoutToken == FetchCalled /\ last.pre.repo \notin {NoVal, ""} /\ ~env.GITHUB_TOKEN

C19_FetchIsIdempotent == pc = "returned" => state = last.pre

(***************************************************************************)
(* fetch_pr_files on its own: one call, the Code-Host answering the pages  *)
(***************************************************************************)
\* the longest run of full pages the Code-Host answers with
MaxFullPages == 11
FullPages(k) == [i \in 1..k |-> PER_PAGE]
\* what follows the full pages: nothing, an empty page, a short page, a
\* short or empty page with more behind it, a failed request, a failed
\* request with a page behind it
PageTails == {<<>>, <<0>>, <<37>>, <<37, 100>>, <<0, 100>>, <<-1>>, <<-1, 37>>}
PageAnswers == { FullPages(k) \o tail : k \in 0..MaxFullPages, tail \in PageTails }

PagesInit ==
    /\ env \in {e \in FetchEnvs : e.GITHUB_TOKEN}
    /\ llm_planner = FALSE
    /\ state \in {s \in FetchStates :
                    /\ s.repo = "owner/name" /\ s.pr_number = 7 /\ s.changed_files = NoFiles
                    /\ s.commit_message = NoText /\ s.commit_sha # ""}
    /\ seed = state
    /\ pc = "fetch_pr_files"
    /\ calls = <<>>
    /\ last = [node |-> "none", pre |-> state, from |-> 0, reply |-> NoReply, llm |-> FALSE]
    /\ nsteps = 0

\* one call fetch_pr_files(repo, pr_number, token); last.res is what it returns
FetchPrFiles ==
    /\ pc = "fetch_pr_files"
    /\ \E pages \in PageAnswers :
          LET r == fetch_pr_files(state.repo, pages)
          IN /\ calls' = calls \o r.cs
             /\ last' = [node |-> "fetch_pr_files", pre |-> state, from |-> Len(calls),
                         reply |-> NoReply, llm |-> FALSE, pages |-> pages, res |-> r.res]
    /\ pc' = "returned"
    /\ nsteps' = nsteps + 1
    /\ UNCHANGED <<env, seed, llm_planner, state>>

PagesNext == FetchPrFiles
PagesSpec == PagesInit /\ [][PagesNext]_vars

PrFilesFetched == last.node = "fetch_pr_files"
\* the page at which the claimed pagination stops: the first page of fewer
\* than 100 items (a page the answer does not hold is empty), the tenth at most
ClaimedLastPage(pages) ==
    IF \E p \in 1..10 : PageSize(pages, p) < 100
    THEN CHOOSE p \in 1..10 :
            /\ PageSize(pages, p) < 100
            /\ \A q \in 1..(p - 1) : PageSize(pages, q) >= 100
    ELSE 10
\* every request up to that page is answered with a page
AllPagesReceived(pages) == \A p \in 1..ClaimedLastPage(pages) : PageSize(pages, p) >= 0

\* C20: fetch_pr_files requests pages 1, 2, ... of 100 items, at most 10 of
\* them, stops at the first page that is empty or shorter than 100, and
\* returns the filenames of the pages it received, in order (1000 at most).
C20_PaginationConcatenates ==
    (PrFilesFetched /\ AllPagesReceived(last.pages)) =>
        LET k == ClaimedLastPage(last.pages)
            total == (k - 1) * 100 + PageSize(last.pages, k)
        IN /\ Len(StepCalls) = k
           /\ k <= 10
           /\ \A i \in 1..Len(StepCalls) :
                 /\ StepCalls[i].op = "fetch_pr_files"
                 /\ StepCalls[i].body = [page |-> i, per_page |-> 100]
           /\ last.res = IF total = 0 THEN <<>>
                         ELSE <<[src |-> "pr_files", off |-> 0, n |-> total]>>
           /\ TextLen(last.res) <= 1000
C20_Witness ==
    /\ PrFilesFetched /\ last.pages = FullPages(11)
    /\ Len(StepCalls) = 10 /\ StepCalls[10].body.page = 10
    /\ TextLen(last.res) = 1000

\* the fetch step looked the PR up and the Code-Host returned a head SHA
PrHeadResolved ==
    /\ FetchCalled /\ env.GITHUB_TOKEN
    /\ last.pre.pr_number # 0 /\ last.pre.commit_sha = NoVal
    /\ HasOp(StepCalls, "fetch_pr_details") /\ last.gh.pr_sha # NoVal
\* the list the PR-files call returns for the answers met
PrFilesReturned == fetch_pr_files(last.pre.repo, last.gh.pr_pages).res

FetchedWithToken == FetchCalled /\ last.pre.repo \notin {NoVal, ""} /\ env.GITHUB_TOKEN
\* every Code-Host call of the step fails: the repo is malformed, or each
\* request ends in a transport error or a non-success status
AllFetchesFail ==
    \/ Slashes(last.pre.repo) = 0
    \/ /\ last.gh.pr_sha = NoVal /\ last.gh.pr_pages = <<-1>>
       /\ last.gh.commit_files = -1 /\ last.gh.commit_msg = NoText

\* C22: whichever Code-Host calls fail, the fetch step does not raise and
\* ends with what the other calls supplied: the PR's files when that call
\* succeeds, the caller's commit_message when the details call fails, and,
\* when every call fails, the input with commit_sha = "HEAD" and
\* changed_files = empty put in where they were unset.
C22_FailedFetchesDegrade ==
    FetchedWithToken =>
        /\ pc # "aborted"
        /\ state.commit_sha \notin {NoVal, ""}
        /\ state.changed_files # NoFiles
        /\ (last.pre.pr_number # 0 /\ FilesTruthy(PrFilesReturned))
              => state.changed_files = PrFilesReturned
        /\ (last.gh.commit_msg = NoText \/ Slashes(last.pre.repo) = 0)
              => state.commit_message = last.pre.commit_message
        /\ AllFetchesFail
              => state = [last.pre EXCEPT
                            !.commit_sha = IF @ \in {NoVal, ""} THEN "HEAD" ELSE @,
                            !.changed_files = IF @ \in {NoFiles, <<>>} THEN <<>> ELSE @]
C22_Witness ==
    /\ FetchedWithToken /\ pc = "github_again"
    /\ last.pre.pr_number = 7 /\ last.pre.commit_sha = NoVal
    /\ last.gh.pr_sha = NoVal /\ last.gh.pr_pages = <<2>> /\ last.gh.commit_msg = NoText
    /\ Len(StepCalls) = 2
    /\ state.commit_sha = "HEAD" /\ TextLen(state.changed_files) = 2

\* C23: a repo string without a separator or with more than one is refused
\* by the repo-parsing routine, so that no Code-Host client function issues
\* a request for it.
C23_MalformedRepoNoRequest ==
    (FetchedWithToken /\ Slashes(last.pre.repo) # 1) => StepCalls = <<>>

(***************************************************************************)
(* create_or_update_linear_issue on its own: calls on any Run State, with  *)
(* the API key and the team id set or not, the tracker answering each      *)
(* request with success or failure                                         *)
(***************************************************************************)
\* calls of the integration in a row, each on the state the one before returned
MaxLinearCalls == 2
LinearEnvs ==
    { [GITHUB_TOKEN |-> FALSE, LINEAR_API_KEY |-> key, LINEAR_TEAM_ID |-> team,
       OPENAI_API_KEY |-> FALSE, PLAYWRIGHT_COMMAND |-> NoVal] :
      key \in BOOLEAN, team \in BOOLEAN }
LinearStates ==
    { [repo |-> "owner/name", commit_sha |-> sha, commit_message |-> NoText,
       pr_number |-> 7, changed_files |-> <<>>, test_status |-> ts,
       test_logs |-> NoText, summary |-> NoVal, next_action |-> "run_tests",
       linear_issue_id |-> iss.id, linear_issue_url |-> iss.url,
       linear_issue_identifier |-> iss.identifier] :
      sha \in {NoVal, "cafe1234"},
      ts \in {NoVal, "pending", "passed", "failed"},
      iss \in {[id |-> NoVal, url |-> NoVal, identifier |-> NoVal],
               [id |-> "", url |-> NoVal, identifier |-> NoVal],
               ExistingIssue} }
LinearAnswers ==
    { [create |-> c, comment |-> m, states |-> w, update |-> u] :
      c \in BOOLEAN, m \in BOOLEAN, w \in {"error", "no_done", "ok"}, u \in BOOLEAN }

LinearInit ==
    /\ env \in LinearEnvs
    /\ llm_planner = FALSE
    /\ state \in LinearStates
    /\ seed = state
    /\ pc = "linear"
    /\ calls = <<>>
    /\ last = [node |-> "none", pre |-> state, from |-> 0, reply |-> NoReply, llm |-> FALSE]
    /\ nsteps = 0

\* one call create_or_update_linear_issue(state); last.lin is how the tracker answers
CallLinear ==
    /\ pc = "linear"
    /\ nsteps < MaxLinearCalls
    /\ \E lin \in LinearAnswers :
          LET r == create_or_update_linear_issue(state, env, lin)
          IN /\ state' = r.st
             /\ calls' = calls \o r.cs
             /\ last' = [node |-> "linear", pre |-> state, from |-> Len(calls),
                         reply |-> NoReply, llm |-> FALSE, lin |-> lin]
             /\ pc' = IF r.raised THEN "aborted" ELSE "linear"
    /\ nsteps' = nsteps + 1
    /\ UNCHANGED <<env, seed, llm_planner>>

LinearNext == CallLinear
LinearSpec == LinearInit /\ [][LinearNext]_vars

LinearCalled == last.node = "linear"
\* the integration was called with both the API key and the team id set
LinearCalledConfigured == LinearCalled /\ env.LINEAR_API_KEY /\ env.LINEAR_TEAM_ID
NoIssueBefore == last.pre.linear_issue_id \in {NoVal, ""}
NoLinearRequest == \A i \in 1..Len(StepCalls) : StepCalls[i].op \notin LinearRequests

\* C24: configured, with test_status = failed and no linear_issue_id, one
\* call of the integration sends exactly one create-issue request, no comment
\* and no state update, and on success stores the returned id, url and
\* identifier.
C24_FailedWithoutIssueCreatesOne ==
    (LinearCalledConfigured /\ PreStatus = "failed" /\ NoIssueBefore) =>
        /\ CountOp(StepCalls, "issueCreate") = 1
        /\ \A i \in 1..Len(StepCalls) :
              StepCalls[i].op \notin {"commentCreate", "GetWorkflowStates", "issueUpdate"}
        /\ last.lin.create =>
              /\ state.linear_issue_id = NewIssue.id
              /\ state.linear_issue_url = NewIssue.url
              /\ state.linear_issue_identifier = NewIssue.identifier
        /\ pc # "aborted"
C24_Witness ==
    /\ LinearCalledConfigured /\ last.pre.test_status = "failed"
    /\ last.pre.linear_issue_id = NoVal /\ last.lin.create
    /\ CountOp(StepCalls, "issueCreate") = 1
    /\ state.linear_issue_id = "issue-123" /\ state.linear_issue_identifier = "ENG-456"

\* C25: configured, with test_status = passed and linear_issue_id set, one
\* call of the integration posts exactly one comment on that issue, makes
\* exactly one attempt to move that issue to "Done" (one workflow-state
\* lookup, followed by one update request when the lookup finds the state),
\* creates no issue and leaves linear_issue_id as it was.
C25_PassedWithIssueCommentsAndCloses ==
    (LinearCalledConfigured /\ PreStatus = "passed" /\ ~NoIssueBefore) =>
        /\ CountOp(StepCalls, "commentCreate") = 1
        /\ CountOp(StepCalls, "GetWorkflowStates") = 1
        /\ CountOp(StepCalls, "issueUpdate") = (IF last.lin.states = "ok" THEN 1 ELSE 0)
        /\ \A i \in 1..Len(StepCalls) :
              /\ StepCalls[i].op = "commentCreate"
                    => StepCalls[i].body.issueId = last.pre.linear_issue_id
              /\ StepCalls[i].op = "issueUpdate"
                    => StepCalls[i].body = [id |-> last.pre.linear_issue_id, state_name |-> "Done"]
        /\ ~HasOp(StepCalls, "issueCreate")
        /\ state.linear_issue_id = last.pre.linear_issue_id
C25_Witness ==
    /\ LinearCalledConfigured /\ last.pre.test_status = "passed"
    /\ last.pre.linear_issue_id = ExistingIssue.id
    /\ last.lin.states = "ok" /\ ~last.lin.comment
    /\ CountOp(StepCalls, "commentCreate") = 1 /\ CountOp(StepCalls, "issueUpdate") = 1
    /\ state.linear_issue_id = ExistingIssue.id

\* C26: with the API key or the team id missing the integration sends no
\* request, returns the Run State with every field unchanged and raises
\* nothing, whatever test_status is.
C26_UnconfiguredIsNoOp ==
    (LinearCalled /\ ~(env.LINEAR_API_KEY /\ env.LINEAR_TEAM_ID)) =>
        (NoLinearRequest /\ state = last.pre /\ pc # "aborted")
C26_Witness ==
    /\ LinearCalled /\ env.LINEAR_API_KEY /\ ~env.LINEAR_TEAM_ID
    /\ last.pre.test_status = "failed" /\ last.pre.linear_issue_id = ExistingIssue.id
    /\ Len(StepCalls) = 1 /\ state = last.pre

\* C27: a create-issue request is sent only with test_status = failed and no
\* linear_issue_id: with passed or pending tests and no issue the integration
\* sends nothing and sets no linear_issue_* field, and with an issue on the
\* state it never sends a create-issue request.
C27_CreateOnlyWhenFailedWithoutIssue ==
    LinearCalled =>
        /\ HasOp(StepCalls, "issueCreate") => (PreStatus = "failed" /\ NoIssueBefore)
        /\ (PreStatus \in {"passed", "pending"} /\ NoIssueBefore)
              => (NoLinearRequest /\ state = last.pre)
C27_Witness ==
    /\ LinearCalledConfigured /\ last.pre.test_status = "passed"
    /\ last.pre.linear_issue_id = NoVal /\ last.lin.create
    /\ Len(StepCalls) = 1 /\ state.linear_issue_id = NoVal

\* C28: once linear_issue_id, linear_issue_url and linear_issue_identifier
\* are set, no step of a run clears or changes them, whether the later
\* issue-tracker calls succeed or fail.
C28_IssueFieldsAreKept ==
    [][state.linear_issue_id \notin {NoVal, ""} =>
          /\ state'.linear_issue_id = state.linear_issue_id
          /\ state'.linear_issue_url = state.linear_issue_url
          /\ state'.linear_issue_identifier = state.linear_issue_identifier]_vars
C28_Witness ==
    /\ seed.linear_issue_id = ExistingIssue.id /\ env.LINEAR_API_KEY /\ env.LINEAR_TEAM_ID
    /\ TestsExecuted /\ HasOp(calls, "commentCreate") /\ pc = "END"
    /\ state.linear_issue_id = ExistingIssue.id /\ state.linear_issue_url = ExistingIssue.url

\* C29: a run seeded with an existing linear_issue_id, the issue tracker
\* configured, that executes its tests has appended a comment to that issue
\* when it terminates, on a failing and on a passing outcome alike, and has
\* created no issue.
C29_SeededIssueGetsComment ==
    (/\ pc = "END" /\ TestsExecuted
     /\ seed.linear_issue_id \notin {NoVal, ""}
     /\ env.LINEAR_API_KEY /\ env.LINEAR_TEAM_ID) =>
        /\ \E i \in 1..Len(calls) :
              /\ calls[i].op = "commentCreate"
              /\ calls[i].body.issueId = seed.linear_issue_id
        /\ ~HasOp(calls, "issueCreate")

(***************************************************************************)
(* post_ci_results_comment on its own: one call on any Run State, with or  *)
(* without a token, the Code-Host accepting the comment or not             *)
(***************************************************************************)
CommentStates ==
    { [repo |-> repo, commit_sha |-> "cafe1234", commit_message |-> NoText,
       pr_number |-> pr, changed_files |-> <<>>, test_status |-> ts,
       test_logs |-> NoText, summary |-> sum, next_action |-> "summarize",
       linear_issue_id |-> NoVal, linear_issue_url |-> NoVal,
       linear_issue_identifier |-> NoVal] :
      repo \in {NoVal, "", "owner/name", "name", "org/team/name"},
      pr \in {0, 7},
      ts \in {NoVal, "pending", "passed", "failed"},
      sum \in {NoVal, PASSED_SUMMARY} }

CommentInit ==
    /\ env \in FetchEnvs
    /\ llm_planner = FALSE
    /\ state \in CommentStates
    /\ seed = state
    /\ pc = "post_ci_results_comment"
    /\ calls = <<>>
    /\ last = [node |-> "none", pre |-> state, from |-> 0, reply |-> NoReply, llm |-> FALSE]
    /\ nsteps = 0

\* one call post_ci_results_comment(state): last.ok is whether the Code-Host
\* accepts a comment, last.res what the function returns
PostCiResultsComment ==
    /\ pc = "post_ci_results_comment"
    /\ \E ok \in BOOLEAN :
          LET r == post_ci_results_comment(state, env, ok)
          IN /\ calls' = calls \o r.cs
             /\ last' = [node |-> "post_ci_results_comment", pre |-> state, from |-> Len(calls),
                         reply |-> NoReply, llm |-> FALSE, ok |-> ok, res |-> r.res]
    /\ pc' = "returned"
    /\ nsteps' = nsteps + 1
    /\ UNCHANGED <<env, seed, llm_planner, state>>

CommentNext == PostCiResultsComment
CommentSpec == CommentInit /\ [][CommentNext]_vars

CommentCalled == last.node = "post_ci_results_comment"
\* pr_number, repo or the credential is absent
CommentPrerequisiteMissing ==
    last.pre.pr_number = 0 \/ last.pre.repo \in {NoVal, ""} \/ ~env.GITHUB_TOKEN
\* exactly one comment request, for the PR of the state
OneCommentRequest ==
    /\ CountOp(StepCalls, "post_pr_comment") = 1
    /\ \A i \in 1..Len(StepCalls) :
          StepCalls[i].op = "post_pr_comment" => StepCalls[i].pr = last.pre.pr_number

\* C30 as stated: post_ci_results_comment returns False and sends no request
\* when pr_number, repo or the credential is absent; otherwise it sends
\* exactly one comment request for that PR and returns its success result.
C30_CommentSentUnlessPrerequisiteMissing ==
    CommentCalled =>
        IF CommentPrerequisiteMissing
        THEN ~last.res /\ ~HasOp(StepCalls, "post_pr_comment")
        ELSE OneCommentRequest /\ last.res = last.ok

\* C30: post_ci_results_comment returns False and sends no request when
\* pr_number, repo or the credential is absent, and also when the repo string
\* holds no separator; otherwise it sends exactly one comment request for
\* that PR and returns its success result.
C30_CommentSentForParsableRepo ==
    CommentCalled =>
        IF CommentPrerequisiteMissing \/ Slashes(last.pre.repo) = 0
        THEN ~last.res /\ ~HasOp(StepCalls, "post_pr_comment")
        ELSE OneCommentRequest /\ last.res = last.ok
C30_Witness ==
    /\ CommentCalled /\ env.GITHUB_TOKEN
    /\ last.pre.repo = "owner/name" /\ last.pre.pr_number = 7 /\ ~last.ok
    /\ CountOp(StepCalls, "post_pr_comment") = 1 /\ ~last.res

(***************************************************************************)
(* utils/build_graph.py: the conversational agent (agent -> action ->      *)
(* agent ... -> END). Here state is the AgentState, env holds the          *)
(* OPENAI_API_KEY and the model_name of the run configuration.             *)
(***************************************************************************)
\* calls of the model in one conversation turn
MaxModelCalls == 3
SupportedModels == {"gpt-4o", "gpt-4o-mini", "gpt-3.5-turbo"}
DEFAULT_MODEL_NAME == "anthropic"

\* _get_model: the model_name handed to ChatOpenAI
ModelFor(model_name) ==
    IF model_name = "gpt-3.5-turbo" THEN "gpt-3.5-turbo-0125" ELSE model_name
\* _get_model raises ValueError for any other name; ChatOpenAI needs the key
_get_model_raises(model_name, e) ==
    model_name \notin SupportedModels \/ ~e.OPENAI_API_KEY

\* call_model(state, config): response is the message the model answers with
call_model(s, e, response) ==
    LET model_name == Get(e.model_name, DEFAULT_MODEL_NAME)
    IN IF _get_model_raises(model_name, e) THEN Raise(s, <<>>)
       ELSE Ret([s EXCEPT !.messages = Append(@, response)],
                <<CallWith("model.invoke", [model |-> ModelFor(model_name)])>>)

should_continue(s) ==
    IF s.messages[Len(s.messages)].tool_calls THEN "continue" ELSE "end"

\* action_node: the tool node answers the tool calls with a tool message
action_node(s, result) ==
    Ret([s EXCEPT !.messages = Append(@, [role |-> "tool", content |-> result, tool_calls |-> FALSE])],
        <<Call("tool.invoke")>>)

ChatConfigs ==
    { [OPENAI_API_KEY |-> key, model_name |-> m] :
      key \in BOOLEAN,
      m \in {NoVal} \cup SupportedModels \cup {"anthropic", "gpt-4"} }
UserMessage == [role |-> "user", content |-> "What is LangGraph?", tool_calls |-> FALSE]
ChatSeeds ==
    { [messages |-> <<UserMessage>>],
      [messages |-> <<UserMessage, [role |-> "ai", content |-> "answer", tool_calls |-> FALSE],
                      UserMessage>>] }
ModelResponses ==
    { [role |-> "ai", content |-> "answer", tool_calls |-> FALSE],
      [role |-> "ai", content |-> "", tool_calls |-> TRUE] }
ToolResults == {"search results", "tool error"}

ChatInit ==
    /\ env \in ChatConfigs
    /\ llm_planner = FALSE
    /\ state \in ChatSeeds
    /\ seed = state
    /\ pc = "agent"
    /\ calls = <<>>
    /\ last = [node |-> "none", pre |-> state, from |-> 0, reply |-> NoReply, llm |-> FALSE]
    /\ nsteps = 0

ChatStep(node, r, next) ==
    /\ state' = r.st
    /\ calls' = calls \o r.cs
    /\ last' = [node |-> node, pre |-> state, from |-> Len(calls), reply |-> NoReply, llm |-> FALSE]
    /\ pc' = IF r.raised THEN "aborted" ELSE next
    /\ nsteps' = nsteps + 1
    /\ UNCHANGED <<env, seed, llm_planner>>

Agent ==
    /\ pc = "agent"
    /\ CountOp(calls, "model.invoke") < MaxModelCalls
    /\ \E response \in ModelResponses :
          LET r == call_model(state, env, response)
          IN ChatStep("agent", r, IF should_continue(r.st) = "continue" THEN "action" ELSE "END")

Action ==
    /\ pc = "action"
    /\ \E result \in ToolResults : ChatStep("action", action_node(state, result), "agent")

ChatNext == Agent \/ Action
ChatSpec == ChatInit /\ [][ChatNext]_vars

\* C31: gpt-4o is the default model of the conversational agent: without a
\* model_name in the run configuration the model-call step selects gpt-4o and
\* proceeds; gpt-4o, gpt-4o-mini and gpt-3.5-turbo are accepted and any other
\* name is rejected with an error.
C31_DefaultModelIsGpt4o ==
    (last.node = "agent" /\ env.OPENAI_API_KEY) =>
        /\ env.model_name = NoVal
              => (pc # "aborted" /\ StepCalls # <<>> /\ StepCalls[1].body.model = "gpt-4o")
        /\ env.model_name \in {"gpt-4o", "gpt-4o-mini", "gpt-3.5-turbo"} => pc # "aborted"
        /\ env.model_name \notin {NoVal, "gpt-4o", "gpt-4o-mini", "gpt-3.5-turbo"}
              => pc = "aborted"

\* C32: with pr_number present and a non-empty list from the PR-files call,
\* changed_files is that list and the per-commit endpoint is not called; the
\* per-commit endpoint is called only without pr_number or without files
\* from the PR-files call, and only for a known commit SHA; changed_files
\* always ends as a list.
C32_ChangedFilesResolution ==
    FetchedWithToken =>
        /\ (last.pre.pr_number # 0 /\ PrFilesReturned \notin {NoFiles, <<>>}) =>
              /\ state.changed_files = PrFilesReturned
              /\ ~HasOp(StepCalls, "fetch_commit_files")
        /\ \A i \in 1..Len(StepCalls) :
              StepCalls[i].op = "fetch_commit_files" =>
                 /\ last.pre.pr_number = 0 \/ PrFilesReturned \in {NoFiles, <<>>}
                 /\ StepCalls[i].body.ref \notin {NoVal, ""}
                 /\ StepCalls[i].body.ref \in {last.pre.commit_sha, last.gh.pr_sha}
        /\ state.changed_files # NoFiles
C32_Witness ==
    /\ FetchedWithToken /\ pc = "github_again"
    /\ last.pre.pr_number = 0 /\ last.pre.commit_sha = "cafe1234"
    /\ last.pre.changed_files = NoFiles /\ last.gh.commit_files = 3
    /\ Ops(StepCalls)[1] = "fetch_commit_files"
    /\ state.changed_files = <<[src |-> "commit_files", off |-> 0, n |-> 3]>>

\* C33 as stated: the PR-details call is made only with pr_number present
\* and commit_sha absent, and a commit_sha supplied non-empty keeps its
\* value.
C33_PrDetailsOnlyIfShaAbsent ==
    FetchCalled =>
        /\ HasOp(StepCalls, "fetch_pr_details")
              => (last.pre.pr_number # 0 /\ last.pre.commit_sha = NoVal)
        /\ last.pre.commit_sha \notin {NoVal, ""} => state.commit_sha = last.pre.commit_sha

\* C33: the fetch step never overwrites a commit_sha the caller supplied
\* non-empty: the PR-details call is made only with pr_number present and
\* commit_sha absent or empty, and a commit_sha supplied non-empty keeps its
\* value.
C33_SuppliedShaIsKept ==
    FetchCalled =>
        /\ HasOp(StepCalls, "fetch_pr_details")
              => (last.pre.pr_number # 0 /\ last.pre.commit_sha \in {NoVal, ""})
        /\ last.pre.commit_sha \notin {NoVal, ""} => state.commit_sha = last.pre.commit_sha
C33_Witness ==
    /\ FetchCalled /\ pc = "github_again" /\ env.GITHUB_TOKEN
    /\ last.pre.repo = "owner/name" /\ last.pre.pr_number = 7
    /\ last.pre.commit_sha = "cafe1234" /\ last.gh.pr_sha = "abc123def456"
    /\ HasOp(StepCalls, "fetch_pr_files") /\ ~HasOp(StepCalls, "fetch_pr_details")
    /\ state.commit_sha = "cafe1234"

\* C34: after a completed command test_logs is the combined output (stdout,
\* then the STDERR marker and stderr when stderr is non-empty) cut to its
\* first 20000 characters, with the truncation marker appended exactly when
\* the combined output is longer than 20000 characters; test_logs is never
\* longer than 20000 characters plus the marker.
C34_LogsCutAtCap ==
    RunCompleted =>
        LET combined == last.run.stdout \o
                           (IF last.run.stderr # <<>>
                            THEN Lit("\n--- STDERR ---\n", 16) \o last.run.stderr ELSE <<>>)
            marker == Lit("\n\n... (truncated)", 17)
        IN /\ state.test_logs =
                 IF TextLen(combined) > 20000
                 THEN TextTake(combined, 20000) \o marker ELSE combined
           /\ Contains(state.test_logs, marker) <=> TextLen(combined) > 20000
           /\ TextLen(state.test_logs) <= 20000 + 17
C34_Witness ==
    /\ RunCompleted /\ TextLen(last.run.stdout) = 19945 /\ TextLen(last.run.stderr) = 40
    /\ TextLen(state.test_logs) = 20017
    /\ state.test_logs[Len(state.test_logs)] = [src |-> "\n\n... (truncated)", off |-> 0, n |-> 17]
    /\ state.test_logs[Len(state.test_logs) - 1] = [src |-> "stderr", off |-> 0, n |-> 39]

\* C35: over a whole run the Summarizer is called at most once.
C35_SummarizerAtMostOnce == CountOp(calls, "llm.invoke") <= 1
C35_Witness ==
    /\ pc = "END" /\ TestsExecuted /\ PostTestTaken
    /\ Ops(calls)[Len(calls)] # "llm.invoke"
    /\ CountOp(calls, "llm.invoke") = 1

\* C36: over a whole run at most one status comment is posted and at most
\* one issue is created.
C36_OneCommentOneIssue ==
    /\ CountOp(calls, "post_pr_comment") <= 1
    /\ CountOp(calls, "issueCreate") <= 1
C36_Witness ==
    /\ pc = "END" /\ AnalyzeTaken
    /\ CountOp(calls, "post_pr_comment") = 1
    /\ CountOp(calls, "issueCreate") = 1

\* C37: a run that ends after a test execution ends with test_status passed
\* or failed, next_action = analyze_failures exactly when it is failed and
\* next_action = summarize exactly when it is passed.
C37_TerminalActionMatchesStatus ==
    (pc = "END" /\ TestsExecuted) =>
        /\ state.test_status \in {"passed", "failed"}
        /\ state.next_action = "analyze_failures" <=> state.test_status = "failed"
        /\ state.next_action = "summarize" <=> state.test_status = "passed"
C37_Witness ==
    /\ pc = "END" /\ TestsExecuted /\ seed.test_status = "passed"
    /\ state.test_status = "failed" /\ state.next_action = "analyze_failures"

\* C38: in a run seeded without next_action, when the entry decision yields
\* summarize or analyze_failures the run ends there: no test command has
\* run, no issue-tracker request and no status comment has been made, and
\* test_status is the seeded one.
C38_TerminalEntryEndsRun ==
    (/\ EntryTaken /\ PlannerReturned /\ seed.next_action = NoVal
     /\ last.pre.next_action = NoVal
     /\ state.next_action \in {"summarize", "analyze_failures"}) =>
        /\ pc = "END"
        /\ \A i \in 1..Len(calls) :
              calls[i].op \notin {"subprocess.run", "post_pr_comment", "issueCreate",
                                  "commentCreate", "GetWorkflowStates", "issueUpdate"}
        /\ state.test_status = seed.test_status
C38_Witness ==
    /\ EntryTaken /\ PlannerReturned /\ seed.next_action = NoVal
    /\ seed.test_status = "failed" /\ env.LINEAR_API_KEY /\ seed.pr_number = 7
    /\ state.next_action = "analyze_failures" /\ pc = "END"

\* the fields of the Run State outside w are as the step found them
OnlyWrites(w) == \A f \in (DOMAIN state) \ w : state[f] = last.pre[f]

\* C39: the decision step never modifies test_status, test_logs, repo,
\* pr_number, commit_sha, commit_message or changed_files; the test execution
\* step modifies only test_status and test_logs; the fetch step modifies only
\* commit_sha, commit_message and changed_files.
C39_FixedWriters ==
    /\ DOMAIN state = DOMAIN last.pre
    /\ last.node = "planner" =>
          \A f \in {"test_status", "test_logs", "repo", "pr_number", "commit_sha",
                    "commit_message", "changed_files"} : state[f] = last.pre[f]
    /\ last.node = "test_runner" => OnlyWrites({"test_status", "test_logs"})
    /\ last.node = "github" => OnlyWrites({"commit_sha", "commit_message", "changed_files"})
C39_Witness ==
    /\ pc = "END" /\ TestsExecuted /\ last.node = "planner"
    /\ state.commit_sha # seed.commit_sha /\ state.changed_files # seed.changed_files
    /\ state.test_status # seed.test_status /\ state.test_logs # seed.test_logs
    /\ state.linear_issue_id # last.pre.linear_issue_id
    /\ state.next_action # last.pre.next_action

\* C40: fetch_pr_files is all-or-nothing: when a page request fails, the
\* result is None whatever the earlier requests delivered, and no further
\* page is requested.
C40_FailedPageGivesNone ==
    PrFilesFetched =>
        \A f \in 1..Len(last.pages) :
            (/\ f <= 10 /\ last.pages[f] < 0
             /\ \A q \in 1..(f - 1) : last.pages[q] >= 100) =>
                /\ last.res = NoFiles
                /\ Len(StepCalls) = f
                /\ \A i \in 1..f : StepCalls[i].op = "fetch_pr_files" /\ StepCalls[i].body.page = i
C40_Witness ==
    /\ PrFilesFetched /\ last.pages = <<100, 100, 100, -1, 37>>
    /\ last.res = NoFiles /\ Len(StepCalls) = 4
====
